---- MODULE Spec2Model ----
(***************************************************************************)
(* TikTokCollector (src/video_collection/collector.py): the batch          *)
(* operation download_videos, the client session it owns (_initialize_api, *)
(* cleanup), the per-item pipeline (_extract_video_id, _get_video_info,    *)
(* _download_video) and the worker that runs _download_with_ytdlp.         *)
(*                                                                         *)
(* A string is a sequence of tokens.  " " is whitespace, "1" and "2" are   *)
(* digits, "a" is a letter, and "P", "M", "V" each stand for a text that   *)
(* matches the literal head of one of the three video_id_patterns.         *)
(***************************************************************************)
EXTENDS Integers, Sequences, FiniteSets, TLC

\* Longest batch handed to download_videos.
MaxUrls == 3
\* Number of calls made on one collector.
MaxCalls == 2

\* Python's None (never equal to a string of the model).
None == <<"None">>
\* self.api = None
NoApi == 0

Tasks == {1, 2}
\* The caller of the sequential specification.
Sequential == {1}

Digit == {"1", "2"}
Word == Digit \cup {"a"}

----------------------------------------------------------------------------
(* str.strip() *)
RECURSIVE LStrip(_)
LStrip(s) == IF s # <<>> /\ Head(s) = " " THEN LStrip(Tail(s)) ELSE s

RECURSIVE RStrip(_)
RStrip(s) == IF s # <<>> /\ s[Len(s)] = " " THEN RStrip(SubSeq(s, 1, Len(s) - 1)) ELSE s

Strip(s) == RStrip(LStrip(s))

(* self.video_id_patterns: a literal head and the class of the group *)
video_id_patterns ==
    << [head |-> "P", class |-> Digit],
       [head |-> "M", class |-> Digit],
       [head |-> "V", class |-> Word] >>

\* the greedy group (\d+) or (\w+) starting at position i
RECURSIVE Group(_, _, _)
Group(s, i, class) ==
    IF i <= Len(s) /\ s[i] \in class THEN <<s[i]>> \o Group(s, i + 1, class) ELSE <<>>

\* re.search(pattern, url): group(1) of the leftmost match, or None
Search(p, s) ==
    LET starts == {i \in 1..(Len(s) - 1) : s[i] = p.head /\ s[i + 1] \in p.class}
    IN  IF starts = {} THEN None
        ELSE Group(s, (CHOOSE i \in starts : \A j \in starts : i <= j) + 1, p.class)

RECURSIVE ExtractFrom(_, _)
ExtractFrom(k, url) ==
    IF k > Len(video_id_patterns) THEN None
    ELSE LET match == Search(video_id_patterns[k], url)
         IN  IF match # None THEN match ELSE ExtractFrom(k + 1, url)

\* _extract_video_id
ExtractVideoId(url) == ExtractFrom(1, url)

----------------------------------------------------------------------------
(* The inputs of a call *)
UrlPool ==
    { <<"P", "1">>,        \* a profile video URL, ID "1"
      <<" ", "P", "1">>,   \* the same URL with leading whitespace
      <<"P", "2">>,        \* a profile video URL, ID "2"
      <<"V", "a">>,        \* a shortened URL, ID "a"
      <<"a">>,             \* not a URL
      None }               \* not a string

Batches == UNION {[1..n -> UrlPool] : n \in 0..MaxUrls}

VARIABLES
    api,          \* self.api: NoApi or the client object
    initialized,  \* self.initialized
    live,         \* the clients that hold a live session
    nclients,     \* TikTokApi objects constructed so far
    ncalls,       \* calls made so far
    task,         \* per call: position, locals and result
    hist          \* per call: what it asked of its collaborators

vars == <<api, initialized, live, nclients, ncalls, task, hist>>

IdleTask ==
    [ pc |-> "idle", urls |-> <<>>, url_to_id |-> <<>>, idx |-> 0,
      results |-> <<>>, metadata |-> None, output_path |-> None,
      pending |-> [kind |-> "none", val |-> <<>>], cret |-> "idle",
      client |-> NoApi,      \* the client an awaited call was issued on
      wpc |-> "idle",        \* the worker's position in _download_with_ytdlp
      success |-> "none",    \* what the worker call returned, or "raised"
      tmp |-> "none",        \* the temporary directory of the worker call
      rm |-> FALSE,          \* shutil.rmtree was called on it
      cause |-> "none",      \* how the last _download_video call ended
      download_path |-> None, \* line 368: what _download_video returned
      outcome |-> "none", retval |-> <<>> ]

NoHist ==
    [ fetchLog |-> <<>>, dlLog |-> <<>>, copied |-> {}, created |-> {}, closed |-> {},
      errors |-> {}, entryInit |-> FALSE, entryApi |-> NoApi, released |-> FALSE,
      excSeen |-> FALSE, initFailed |-> FALSE,
      overlap |-> FALSE,     \* a call of this caller has overlapped another
      cleaned |-> {} ]       \* clients the cleanup() call just before closed

Init ==
    /\ api = NoApi
    /\ initialized = FALSE
    /\ live = {}
    /\ nclients = 0
    /\ ncalls = 0
    /\ task = [t \in Tasks |-> IdleTask]
    /\ hist = [t \in Tasks |-> NoHist]

----------------------------------------------------------------------------
\* the truth value of an Optional[str]: neither None nor ""
Truthy(x) == x # None /\ x # <<>>

(* download_videos, lines 347-353: the insertion-ordered dict url_to_id *)
DictPutAppend(d, k, v) == Append(d, [url |-> k, id |-> v])

DictPut(d, k, v) ==
    IF \E j \in DOMAIN d : d[j].url = k
    THEN [j \in DOMAIN d |-> IF d[j].url = k THEN [url |-> k, id |-> v] ELSE d[j]]
    ELSE Append(d, [url |-> k, id |-> v])

RECURSIVE ResolveFrom(_, _, _)
ResolveFrom(us, i, d) ==
    IF i > Len(us) THEN d
    ELSE LET url == Strip(us[i])
             video_id == ExtractVideoId(url)
         IN  ResolveFrom(us, i + 1, IF Truthy(video_id) THEN DictPut(d, url, video_id) ELSE d)

\* the loop with a break where the code goes on to the next URL
RECURSIVE ResolveUntilMiss(_, _, _)
ResolveUntilMiss(us, i, d) ==
    IF i > Len(us) THEN d
    ELSE LET url == Strip(us[i])
             video_id == ExtractVideoId(url)
         IN  IF Truthy(video_id) THEN ResolveUntilMiss(us, i + 1, DictPut(d, url, video_id))
             ELSE d

ResolveUrlsStopAtMiss(us) == ResolveUntilMiss(us, 1, <<>>)

ResolveUrls(us) == ResolveFrom(us, 1, <<>>)

\* line 355 left out: the loop is entered with an empty dict
NoValidUrlsNever(d) == FALSE

\* line 355: if not url_to_id
NoValidUrls(d) == d = <<>>

\* line 369 left out: every fetched record is appended
ShouldAppendAlways(download_path) == TRUE

\* line 369: if download_path
ShouldAppend(download_path) == Truthy(download_path)

\* results.insert(0, metadata)
AppendResultFront(results, metadata) == <<metadata>> \o results

\* line 370: results.append(metadata)
AppendResult(results, metadata) == Append(results, metadata)

\* a handler that logs and re-raises, as the two inner handlers do
ExceptReraise == [kind |-> "raise", val |-> <<>>]

\* lines 375-377: the batch-level handler returns []
ExceptResult == [kind |-> "return", val |-> <<>>]

\* _initialize_api without the raise of line 135
AfterInitFailureSwallowed == "resolve"

\* line 135: _initialize_api re-raises, into the handler of download_videos
AfterInitFailure == "except"

\* if self.initialized
CleanupGuardInitialized(a) == initialized

\* lines 133 and 140: if self.api
CleanupGuard(a) == a # NoApi

\* lines 319-331 without the test of line 319: the path is returned anyway
DownloadReturnPath(success, output_path) == output_path

\* lines 319-331: _download_video returns the path after a successful
\* worker call, None when it reported failure or raised
DownloadReturn(success, output_path) ==
    IF success = "true" THEN output_path ELSE None

\* line 324 moved above the test of line 319
SetLocalPathFirst(success, metadata, output_path) ==
    [metadata EXCEPT !.local_path = output_path]

\* lines 319-324: video_metadata.local_path = output_path, after success
SetLocalPath(success, metadata, output_path) ==
    IF success = "true" THEN [metadata EXCEPT !.local_path = output_path] ELSE metadata

\* rmtree at the end of the try block instead of a finally clause
AfterToolNoFinally(r) == IF r = "file" THEN "copy" ELSE "done"

\* lines 273-288: with the file the copy comes next; without it, or after
\* an exception of the tool, the finally clause
AfterTool(r) == IF r = "file" THEN "copy" ELSE "rmtree"

\* the worker call started without awaiting it
AfterSubmitNoAwait == "process"

\* lines 311-317: await loop.run_in_executor(...): the call is suspended
\* until the worker call has ended
AfterSubmit == "downloading"

\* the test of line 104 left out: every call makes a client
ShouldInitializeAlways(init) == TRUE

\* line 104: if not self.initialized
ShouldInitialize(init) == ~init

\* line 128 left out: the flag is not set after create_sessions
InitializedAfterCreateUnset == FALSE

\* line 128: self.initialized = True
InitializedAfterCreate == TRUE

\* line 143 left out: cleanup clears the client and keeps the flag
InitializedAfterCloseKept == TRUE

\* line 143: self.initialized = False
InitializedAfterClose == FALSE

\* file_manager.get_download_path(video_id)
DownloadPath(video_id) == <<"D">> \o video_id

\* lines 217-235: the record _get_video_info builds
VideoMetadata(video_id, url) == [id |-> video_id, url |-> url, local_path |-> None]

----------------------------------------------------------------------------
(* cleanup(), entered with return address ra: with a client it calls       *)
(* close_sessions and awaits it, without one it returns at once.           *)
EnterCleanup(tk, ra) ==
    IF CleanupGuard(api)
    THEN [tk EXCEPT !.pc = "closing", !.client = api, !.cret = ra]
    ELSE [tk EXCEPT !.pc = ra]

CleanupLog(h) ==
    IF CleanupGuard(api) THEN [h EXCEPT !.closed = @ \cup {api}] ELSE h

\* lines 378-380: the finally clause, with the value the try block left
EnterFinally(tk, pend) == EnterCleanup([tk EXCEPT !.pending = pend], "return")

FinallyLog(h) == CleanupLog([h EXCEPT !.released = TRUE])

----------------------------------------------------------------------------
\* a call of download_videos or cleanup is in progress
Active(t) == task[t].pc \notin {"idle", "returned"}

(* A caller invokes download_videos(urls), urls drawn from B *)
StartWith(t, B) ==
    /\ task[t].pc = "idle"
    /\ ncalls < MaxCalls
    /\ \E us \in B :
          task' = [task EXCEPT ![t] = [IdleTask EXCEPT !.pc = "init", !.urls = us]]
    /\ hist' = [u \in Tasks |->
                  IF u = t
                  THEN [NoHist EXCEPT !.entryInit = initialized, !.entryApi = api,
                                      !.cleaned = hist[t].cleaned,
                                      !.overlap = \/ hist[t].overlap
                                                  \/ \E v \in Tasks \ {t} : Active(v)]
                  ELSE IF Active(u) THEN [hist[u] EXCEPT !.overlap = TRUE] ELSE hist[u]]
    /\ ncalls' = ncalls + 1
    /\ UNCHANGED <<api, initialized, live, nclients>>

Start(t) == StartWith(t, Batches)

(* _initialize_api, lines 103-113 and 131-135: nothing to do when           *)
(* initialized; otherwise the data directory and the client object are     *)
(* made (either may raise) and create_sessions is called on self.api.      *)
InitializeApi(t) ==
    /\ task[t].pc = "init"
    /\ IF ~ShouldInitialize(initialized)
       THEN /\ task' = [task EXCEPT ![t].pc = "resolve"]
            /\ UNCHANGED <<api, nclients, hist>>
       ELSE \E made \in BOOLEAN :
               IF made
               THEN /\ nclients' = nclients + 1
                    /\ api' = nclients + 1
                    /\ task' = [task EXCEPT ![t].pc = "creating", ![t].client = nclients + 1]
                    /\ hist' = [hist EXCEPT ![t].created = @ \cup {nclients + 1}]
               ELSE /\ task' = [task EXCEPT ![t] = EnterCleanup(@, AfterInitFailure)]
                    /\ hist' = [hist EXCEPT ![t] =
                                  CleanupLog([@ EXCEPT !.errors = @ \cup {"init"},
                                                       !.initFailed = TRUE])]
                    /\ UNCHANGED <<api, nclients>>
    /\ UNCHANGED <<initialized, live, ncalls>>

(* lines 116-135: create_sessions completes or raises *)
CreateSessionsDone(t) ==
    /\ task[t].pc = "creating"
    /\ \E ok \in BOOLEAN :
          IF ok
          THEN /\ live' = live \cup {task[t].client}
               /\ initialized' = InitializedAfterCreate
               /\ task' = [task EXCEPT ![t].pc = "resolve"]
               /\ UNCHANGED hist
          ELSE /\ task' = [task EXCEPT ![t] = EnterCleanup(@, AfterInitFailure)]
               /\ hist' = [hist EXCEPT ![t] =
                             CleanupLog([@ EXCEPT !.errors = @ \cup {"init"},
                                                  !.initFailed = TRUE])]
               /\ UNCHANGED <<live, initialized>>
    /\ UNCHANGED <<api, nclients, ncalls>>

(* cleanup, lines 141-146: close_sessions completes, and the fields are    *)
(* cleared, or it raises, and the error is logged.                         *)
CloseSessionsDone(t) ==
    /\ task[t].pc = "closing"
    /\ \E ok \in BOOLEAN :
          IF ok
          THEN /\ live' = live \ {task[t].client}
               /\ api' = NoApi
               /\ initialized' = InitializedAfterClose
               /\ UNCHANGED hist
          ELSE /\ hist' = [hist EXCEPT ![t].errors = @ \cup {"cleanup"}]
               /\ UNCHANGED <<live, api, initialized>>
    /\ task' = [task EXCEPT ![t].pc = task[t].cret]
    /\ UNCHANGED <<nclients, ncalls>>

(* lines 347-359: Resolve.  url.strip() raises on an element that is not a *)
(* string; with no ID at all the call returns [] through the finally.      *)
Resolve(t) ==
    /\ task[t].pc = "resolve"
    /\ IF \E i \in DOMAIN task[t].urls : task[t].urls[i] = None
       THEN /\ task' = [task EXCEPT ![t].pc = "except"]
            /\ hist' = [hist EXCEPT ![t].excSeen = TRUE]
       ELSE LET d == ResolveUrls(task[t].urls)
            IN  IF NoValidUrls(d)
                THEN /\ task' = [task EXCEPT ![t] =
                                   EnterFinally([@ EXCEPT !.url_to_id = d],
                                                [kind |-> "return", val |-> <<>>])]
                     /\ hist' = [hist EXCEPT ![t] =
                                   FinallyLog([@ EXCEPT !.errors = @ \cup {"no_valid_urls"}])]
                ELSE /\ task' = [task EXCEPT ![t].url_to_id = d, ![t].idx = 1,
                                             ![t].pc = "process"]
                     /\ UNCHANGED hist
    /\ UNCHANGED <<api, initialized, live, nclients, ncalls>>

\* the frame of the last _download_video call is gone
FrameGone(tk) == [tk EXCEPT !.cause = "none", !.rm = FALSE]

(* lines 363-365 and 372-373, 180-190: the head of the Process loop.  Past *)
(* the last item the results are returned; otherwise _get_video_info       *)
(* raises without a client, or issues video.info() on self.api.            *)
Process(t) ==
    /\ task[t].pc = "process"
    /\ IF task[t].idx > Len(task[t].url_to_id)
       THEN /\ task' = [task EXCEPT ![t] =
                          EnterFinally(FrameGone(@), [kind |-> "return", val |-> task[t].results])]
            /\ hist' = [hist EXCEPT ![t] = FinallyLog(@)]
       ELSE IF api = NoApi
            THEN /\ task' = [task EXCEPT ![t] = [FrameGone(@) EXCEPT !.pc = "except"]]
                 /\ hist' = [hist EXCEPT ![t].excSeen = TRUE]
            ELSE /\ task' = [task EXCEPT ![t] =
                               [FrameGone(@) EXCEPT !.pc = "fetching", !.client = api]]
                 /\ UNCHANGED hist
    /\ UNCHANGED <<api, initialized, live, nclients, ncalls>>

\* the item the Process loop is at
Item(tk) == tk.url_to_id[tk.idx]

(* lines 190-239 and 366-368, 300-317: video.info() answers.  An empty     *)
(* answer or an exception is logged and raised out of _get_video_info.     *)
(* With data the record is built, _download_video asks the file manager    *)
(* for the output path (it may raise: _download_video returns None) and    *)
(* hands _download_with_ytdlp to the executor.                             *)
FetchDone(t) ==
    /\ task[t].pc = "fetching"
    /\ \E r \in {"data", "empty", "raises"} :
          LET url == Item(task[t]).url
              video_id == Item(task[t]).id
              h == [hist[t] EXCEPT !.fetchLog = Append(@, [url |-> url, res |-> r])]
          IN  IF r # "data"
              THEN /\ task' = [task EXCEPT ![t].pc = "except"]
                   /\ hist' = [hist EXCEPT ![t] =
                                 [h EXCEPT !.errors = @ \cup {"fetch"}, !.excSeen = TRUE]]
              ELSE \E path_ok \in BOOLEAN :
                      IF path_ok
                      THEN /\ task' = [task EXCEPT
                                         ![t].metadata = VideoMetadata(video_id, url),
                                         ![t].output_path = DownloadPath(video_id),
                                         ![t].wpc = "mkdtemp",
                                         ![t].success = "none",
                                         ![t].rm = FALSE,
                                         ![t].cause = "none",
                                         ![t].pc = AfterSubmit]
                           /\ hist' = [hist EXCEPT ![t] = h]
                      ELSE /\ task' = [task EXCEPT
                                         ![t].metadata = VideoMetadata(video_id, url),
                                         ![t].results =
                                            IF ShouldAppend(None)
                                            THEN AppendResult(@, VideoMetadata(video_id, url))
                                            ELSE @,
                                         ![t].rm = FALSE,
                                         ![t].cause = "path",
                                         ![t].download_path = None,
                                         ![t].idx = @ + 1,
                                         ![t].pc = "process"]
                           /\ hist' = [hist EXCEPT ![t] =
                                         [h EXCEPT !.errors = @ \cup {"download"},
                                                   !.dlLog = Append(@, [url |-> url, ok |-> FALSE])]]
    /\ UNCHANGED <<api, initialized, live, nclients, ncalls>>

(* _download_with_ytdlp on the worker, line 252: tempfile.mkdtemp() *)
WorkerMkdtemp(t) ==
    /\ task[t].wpc = "mkdtemp"
    /\ \E ok \in BOOLEAN :
          task' = [task EXCEPT ![t].tmp = IF ok THEN "empty" ELSE @,
                               ![t].cause = IF ok THEN @ ELSE "mkdtemp",
                               ![t].success = IF ok THEN @ ELSE "raised",
                               ![t].wpc = IF ok THEN "tool" ELSE "done"]
    /\ UNCHANGED <<api, initialized, live, nclients, ncalls, hist>>

(* lines 269-282: ydl.download writes the file, writes none, or raises *)
WorkerTool(t) ==
    /\ task[t].wpc = "tool"
    /\ \E r \in {"file", "nofile", "raises"} :
          task' = [task EXCEPT ![t].tmp = IF r = "file" THEN "file" ELSE @,
                               ![t].success = IF r = "file" THEN @ ELSE "false",
                               ![t].cause = IF r = "file" THEN @
                                            ELSE IF r = "nofile" THEN "nofile" ELSE "tool",
                               ![t].wpc = AfterTool(r)]
    /\ UNCHANGED <<api, initialized, live, nclients, ncalls, hist>>

(* lines 273-276 and 280-282: the file exists; shutil.copy2 to output_path *)
WorkerCopy(t) ==
    /\ task[t].wpc = "copy"
    /\ \E ok \in BOOLEAN :
          /\ task' = [task EXCEPT ![t].success = IF ok THEN "true" ELSE "false",
                                  ![t].cause = IF ok THEN "ok" ELSE "copy",
                                  ![t].wpc = "rmtree"]
          /\ hist' = [hist EXCEPT ![t].copied =
                        IF ok THEN @ \cup {task[t].output_path} ELSE @]
    /\ UNCHANGED <<api, initialized, live, nclients, ncalls>>

(* lines 283-288: the finally clause removes the temporary directory *)
WorkerRmtree(t) ==
    /\ task[t].wpc = "rmtree"
    /\ \E ok \in BOOLEAN :
          task' = [task EXCEPT ![t].tmp = IF ok THEN "none" ELSE @,
                               ![t].rm = TRUE,
                               ![t].wpc = "done"]
    /\ UNCHANGED <<api, initialized, live, nclients, ncalls, hist>>

(* lines 319-331 and 369-370: the executor's future completes;             *)
(* _download_video sets local_path and returns the path, or returns None;  *)
(* the loop appends the record when the path is truthy.                    *)
DownloadDone(t) ==
    /\ task[t].pc = "downloading"
    /\ task[t].wpc = "done"
    /\ LET ok == task[t].success = "true"
           md == SetLocalPath(task[t].success, task[t].metadata, task[t].output_path)
           download_path == DownloadReturn(task[t].success, task[t].output_path)
       IN  /\ task' = [task EXCEPT
                         ![t].metadata = md,
                         ![t].results = IF ShouldAppend(download_path)
                                        THEN AppendResult(@, md) ELSE @,
                         ![t].download_path = download_path,
                         ![t].idx = @ + 1,
                         ![t].wpc = "idle",
                         ![t].tmp = "none",
                         ![t].success = "none",
                         ![t].pc = "process"]
           /\ hist' = [hist EXCEPT
                         ![t].dlLog = Append(@, [url |-> md.url, ok |-> ok]),
                         ![t].errors = IF ok THEN @ ELSE @ \cup {"download"}]
    /\ UNCHANGED <<api, initialized, live, nclients, ncalls>>

(* lines 375-380: the batch-level handler, then the finally clause *)
BatchExcept(t) ==
    /\ task[t].pc = "except"
    /\ task' = [task EXCEPT ![t] = EnterFinally(@, ExceptResult)]
    /\ hist' = [hist EXCEPT ![t] = FinallyLog([@ EXCEPT !.errors = @ \cup {"batch"}])]
    /\ UNCHANGED <<api, initialized, live, nclients, ncalls>>

(* download_videos hands its result, or its exception, to the caller *)
Return(t) ==
    /\ task[t].pc = "return"
    /\ task' = [task EXCEPT
                  ![t].pc = "returned",
                  ![t].outcome = IF task[t].pending.kind = "raise" THEN "raised" ELSE "returned",
                  ![t].retval = task[t].pending.val]
    /\ UNCHANGED <<api, initialized, live, nclients, ncalls, hist>>

(* The caller takes the result; the call's frame is gone *)
Discard(t) ==
    /\ task[t].pc = "returned"
    /\ task' = [task EXCEPT ![t] = IdleTask]
    /\ hist' = [hist EXCEPT ![t] = [NoHist EXCEPT !.overlap = hist[t].overlap]]
    /\ UNCHANGED <<api, initialized, live, nclients, ncalls>>

Next ==
    \/ \E t \in Sequential : Start(t)
    \/ \E t \in Sequential : InitializeApi(t)
    \/ \E t \in Sequential : CreateSessionsDone(t)
    \/ \E t \in Sequential : CloseSessionsDone(t)
    \/ \E t \in Sequential : Resolve(t)
    \/ \E t \in Sequential : Process(t)
    \/ \E t \in Sequential : FetchDone(t)
    \/ \E t \in Sequential : WorkerMkdtemp(t)
    \/ \E t \in Sequential : WorkerTool(t)
    \/ \E t \in Sequential : WorkerCopy(t)
    \/ \E t \in Sequential : WorkerRmtree(t)
    \/ \E t \in Sequential : DownloadDone(t)
    \/ \E t \in Sequential : BatchExcept(t)
    \/ \E t \in Sequential : Return(t)
    \/ \E t \in Sequential : Discard(t)

Spec == Init /\ [][Next]_vars

----------------------------------------------------------------------------
\* batches of one URL, with an ID or without
ShortBatches == { << <<"P", "1">> >>, << <<"a">> >> }

StartShort(t) == StartWith(t, ShortBatches)

(* Two callers of one collector whose calls may overlap: each step of a    *)
(* call runs from one await to the next, and the steps of the two calls    *)
(* and of their workers interleave.                                        *)

NextOverlap ==
    \/ \E t \in Tasks : StartShort(t)
    \/ \E t \in Tasks : InitializeApi(t)
    \/ \E t \in Tasks : CreateSessionsDone(t)
    \/ \E t \in Tasks : CloseSessionsDone(t)
    \/ \E t \in Tasks : Resolve(t)
    \/ \E t \in Tasks : Process(t)
    \/ \E t \in Tasks : FetchDone(t)
    \/ \E t \in Tasks : WorkerMkdtemp(t)
    \/ \E t \in Tasks : WorkerTool(t)
    \/ \E t \in Tasks : WorkerCopy(t)
    \/ \E t \in Tasks : WorkerRmtree(t)
    \/ \E t \in Tasks : DownloadDone(t)
    \/ \E t \in Tasks : BatchExcept(t)
    \/ \E t \in Tasks : Return(t)
    \/ \E t \in Tasks : Discard(t)

SpecOverlap == Init /\ [][NextOverlap]_vars

----------------------------------------------------------------------------
(* One caller that calls download_videos and cleanup one after the other,  *)
(* each call begun when the one before it has returned.                    *)

\* the short batches and a batch of two URLs with different IDs
PairBatches == ShortBatches \cup { << <<"P", "1">>, <<"P", "2">> >> }

StartPair(t) == StartWith(t, PairBatches)

(* A caller invokes cleanup(), lines 137-146 *)
CallCleanup(t) ==
    /\ task[t].pc = "idle"
    /\ task' = [task EXCEPT ![t] = EnterCleanup(IdleTask, "cleaned")]
    /\ hist' = [hist EXCEPT ![t] =
                  CleanupLog([NoHist EXCEPT !.entryInit = initialized, !.entryApi = api])]
    /\ UNCHANGED <<api, initialized, live, nclients, ncalls>>

(* cleanup() returns to its caller *)
CleanupReturn(t) ==
    /\ task[t].pc = "cleaned"
    /\ task' = [task EXCEPT ![t] = IdleTask]
    /\ hist' = [hist EXCEPT ![t] = [NoHist EXCEPT !.cleaned = hist[t].closed]]
    /\ UNCHANGED <<api, initialized, live, nclients, ncalls>>

NextCleanup ==
    \/ \E t \in Sequential : StartPair(t)
    \/ \E t \in Sequential : InitializeApi(t)
    \/ \E t \in Sequential : CreateSessionsDone(t)
    \/ \E t \in Sequential : CloseSessionsDone(t)
    \/ \E t \in Sequential : Resolve(t)
    \/ \E t \in Sequential : Process(t)
    \/ \E t \in Sequential : FetchDone(t)
    \/ \E t \in Sequential : WorkerMkdtemp(t)
    \/ \E t \in Sequential : WorkerTool(t)
    \/ \E t \in Sequential : WorkerCopy(t)
    \/ \E t \in Sequential : WorkerRmtree(t)
    \/ \E t \in Sequential : DownloadDone(t)
    \/ \E t \in Sequential : BatchExcept(t)
    \/ \E t \in Sequential : Return(t)
    \/ \E t \in Sequential : Discard(t)
    \/ \E t \in Sequential : CallCleanup(t)
    \/ \E t \in Sequential : CleanupReturn(t)

SpecCleanup == Init /\ [][NextCleanup]_vars

----------------------------------------------------------------------------
(* What the claims speak of *)
Returned(t) == task[t].pc = "returned"

\* the items of the call whose fetch and whose download both succeeded
Succeeded(t) == {hist[t].dlLog[j].url : j \in {k \in DOMAIN hist[t].dlLog : hist[t].dlLog[k].ok}}

FetchFailed(t) == \E i \in DOMAIN hist[t].fetchLog : hist[t].fetchLog[i].res # "data"

DownloadFailed(t) == \E j \in DOMAIN hist[t].dlLog : ~hist[t].dlLog[j].ok

ReturnedUrls(t) == {task[t].retval[k].url : k \in DOMAIN task[t].retval}

\* url.strip() of each string a batch may hold
Trimmed == [u \in UrlPool \ {None} |-> Strip(u)]

\* _extract_video_id of each trimmed URL
IdOf == [u \in {Trimmed[v] : v \in DOMAIN Trimmed} |-> ExtractVideoId(u)]

\* the input URLs, trimmed, that carry a video ID
IsValid(u) == u # None /\ IdOf[Trimmed[u]] # None

ValidUrls(t) == {Trimmed[task[t].urls[i]] : i \in {j \in DOMAIN task[t].urls : IsValid(task[t].urls[j])}}

\* a is b with some elements left out
RECURSIVE IsSubseq(_, _)
IsSubseq(a, b) ==
    IF a = <<>> THEN TRUE
    ELSE IF b = <<>> THEN FALSE
    ELSE IF Head(a) = Head(b) THEN IsSubseq(Tail(a), Tail(b))
    ELSE IsSubseq(a, Tail(b))

\* C1: when the metadata fetch of one URL fails, only that URL is skipped:
\* the call returns without raising, and every item of the batch whose fetch
\* and download succeeded is in the returned list.
C1_FetchFailureIsolated ==
    \A t \in Sequential :
        (Returned(t) /\ FetchFailed(t)) =>
            /\ task[t].outcome = "returned"
            /\ Succeeded(t) \subseteq ReturnedUrls(t)

\* C2: after every return of download_videos, also when close_sessions
\* itself failed, the collector holds no client session: api is None and
\* initialized is False.
C2_NoSessionAfterReturn ==
    \A t \in Sequential :
        Returned(t) => (api = NoApi /\ initialized = FALSE)

\* C3 as stated: when the client session cannot be started, the
\* initialization error is raised to the caller of download_videos.
C3_InitFailureRaised ==
    \A t \in Sequential :
        (Returned(t) /\ hist[t].initFailed) => task[t].outcome = "raised"

\* C3 as amended: when the client session cannot be started, the batch is
\* over: close_sessions is attempted on the client that was made, the error
\* goes to the batch-level handler, no URL is resolved, fetched or
\* downloaded, and download_videos returns an empty list without raising.
C3_InitFailureReturnsEmpty ==
    \A t \in Sequential :
        (Returned(t) /\ hist[t].initFailed) =>
            /\ task[t].outcome = "returned"
            /\ task[t].retval = <<>>
            /\ hist[t].created \subseteq hist[t].closed
            /\ {"init", "batch"} \subseteq hist[t].errors
            /\ task[t].url_to_id = <<>>
            /\ hist[t].fetchLog = <<>>
            /\ hist[t].dlLog = <<>>
            /\ hist[t].released

C3_Witness ==
    \E t \in Sequential :
        /\ Returned(t) /\ hist[t].initFailed
        /\ hist[t].created # {}
        /\ task[t].urls = << <<"P", "1">> >>

\* C4: download_videos never raises to its caller; an exception that is
\* raised during Resolve or Process is caught at batch level, the call
\* returns an empty list, and the Release step has run.
C4_NeverRaises ==
    \A t \in Sequential :
        /\ task[t].outcome # "raised"
        /\ (Returned(t) /\ hist[t].excSeen) =>
              /\ task[t].outcome = "returned"
              /\ task[t].retval = <<>>
              /\ "batch" \in hist[t].errors
              /\ hist[t].released

C4_Witness ==
    \E t \in Sequential :
        /\ Returned(t) /\ hist[t].excSeen
        /\ FetchFailed(t)
        /\ task[t].results # <<>>

\* C5: when the download of one item fails after its fetch succeeded, only
\* that item is omitted: every other item of the batch whose fetch and
\* download succeeded is in the returned list.
C5_DownloadFailureIsolated ==
    \A t \in Sequential :
        (Returned(t) /\ DownloadFailed(t)) => Succeeded(t) \subseteq ReturnedUrls(t)

\* C6: every record in the list download_videos returns has a non-empty
\* local_path, the path its download was copied to; a record whose download
\* failed or was never made is not in the list.
C6_ReturnedHaveLocalPath ==
    \A t \in Sequential :
        Returned(t) =>
            \A k \in DOMAIN task[t].retval :
                /\ task[t].retval[k].local_path # None
                /\ task[t].retval[k].local_path # <<>>
                /\ task[t].retval[k].local_path \in hist[t].copied
                /\ task[t].retval[k].url \in Succeeded(t)

C6_Witness ==
    \E t \in Sequential :
        /\ Returned(t)
        /\ DownloadFailed(t)
        /\ Len(task[t].retval) = 1

\* C7: the returned records are in the order of their source URLs in the
\* input: their URLs are the trimmed input with elements left out, and the
\* list is never longer than the input.
C7_OrderPreservingSubsequence ==
    \A t \in Sequential :
        Returned(t) =>
            /\ Len(task[t].retval) <= Len(task[t].urls)
            /\ IsSubseq([k \in DOMAIN task[t].retval |-> task[t].retval[k].url],
                        [i \in DOMAIN task[t].urls |-> Strip(task[t].urls[i])])

C7_Witness ==
    \E t \in Sequential :
        /\ Returned(t)
        /\ Len(task[t].urls) = 3
        /\ Len(task[t].retval) = 2
        /\ task[t].urls[1] = <<" ", "P", "1">>

\* C8: on every exit path, close_sessions has been called, before the call
\* returns, on every client the call ran create_sessions on and on the
\* client whose session it found open.
C8_OpenedSessionsClosed ==
    \A t \in Sequential :
        Returned(t) =>
            /\ hist[t].created \subseteq hist[t].closed
            /\ hist[t].entryInit => hist[t].entryApi \in hist[t].closed

C8_Witness ==
    \E t \in Sequential :
        /\ Returned(t)
        /\ hist[t].entryInit
        /\ hist[t].excSeen
        /\ hist[t].entryApi \in hist[t].closed

\* C9: a URL without a video ID is skipped and the batch goes on: nothing
\* is fetched or downloaded for it, every other URL of the batch is
\* resolved, and with a working client and tool the call returns exactly
\* one record for each distinct trimmed URL that has an ID.
C9_ExtractionMissSkipped ==
    \A t \in Sequential :
        /\ \A i \in DOMAIN hist[t].fetchLog :
              IdOf[hist[t].fetchLog[i].url] # None
        /\ \A j \in DOMAIN hist[t].dlLog :
              IdOf[hist[t].dlLog[j].url] # None
        /\ task[t].pc \in {"process", "fetching", "downloading"} =>
              {task[t].url_to_id[k].url : k \in DOMAIN task[t].url_to_id} = ValidUrls(t)
        /\ ( /\ Returned(t)
             /\ \A i \in DOMAIN task[t].urls : task[t].urls[i] # None
             /\ ~hist[t].initFailed /\ ~FetchFailed(t) /\ ~DownloadFailed(t)
             /\ ~hist[t].excSeen ) =>
              LET valid == ValidUrls(t)
              IN  /\ ReturnedUrls(t) = valid
                  /\ Len(task[t].retval) = Cardinality(valid)
                  /\ \A k \in DOMAIN task[t].retval :
                        task[t].retval[k].id = IdOf[task[t].retval[k].url]

C9_Witness ==
    \E t \in Sequential :
        /\ Returned(t)
        /\ task[t].urls = << <<"P", "1">>, <<"a">> >>
        /\ Len(task[t].retval) = 1
        /\ task[t].retval[1].id = <<"1">>

\* C10: when no URL of the batch resolves to a video ID, an empty input
\* included, download_videos returns an empty list at once: the Process
\* loop is never entered, nothing is fetched or downloaded, nothing is
\* raised, the error is logged and the Release step has run.
C10_NoValidUrlsReturnsEmpty ==
    \A t \in Sequential :
        /\ task[t].pc \in {"process", "fetching", "downloading"} =>
              task[t].url_to_id # <<>>
        /\ (Returned(t) /\ \A i \in DOMAIN task[t].urls : ~IsValid(task[t].urls[i])) =>
              /\ task[t].outcome = "returned"
              /\ task[t].retval = <<>>
              /\ hist[t].fetchLog = <<>>
              /\ hist[t].dlLog = <<>>
              /\ hist[t].released
              /\ (~hist[t].initFailed /\ ~hist[t].excSeen) =>
                    "no_valid_urls" \in hist[t].errors

C10_Witness ==
    \E t \in Sequential :
        /\ Returned(t)
        /\ task[t].urls = << <<"a">> >>
        /\ "no_valid_urls" \in hist[t].errors
        /\ hist[t].closed # {}

\* the call of _download_video for the current item has just returned
DownloadReturned(t) == task[t].pc = "process" /\ task[t].cause # "none"

\* C11: _download_video never raises past its boundary: it returns the
\* output path when the tool produced the file and the copy succeeded, and
\* None after every failure (no output path from the file manager, no
\* temporary directory, a tool exception, no output file, a failed copy);
\* none of them takes the call to the batch-level handler.
C11_DownloaderNeverRaises ==
    \A t \in Sequential :
        /\ DownloadReturned(t) =>
              /\ task[t].cause \in {"ok", "path", "mkdtemp", "tool", "nofile", "copy"}
              /\ task[t].cause = "ok" =>
                    /\ task[t].download_path = task[t].output_path
                    /\ task[t].output_path \in hist[t].copied
              /\ task[t].cause # "ok" => task[t].download_path = None
        /\ task[t].pc = "except" => task[t].cause = "none"

C11_Witness ==
    \E t \in Sequential :
        /\ DownloadReturned(t)
        /\ task[t].cause = "mkdtemp"
        /\ task[t].download_path = None
        /\ task[t].results # <<>>

\* the worker call has returned, or raised, and its future is not yet taken
WorkerReturned(t) == task[t].wpc = "done"

\* C12: every call of _download_with_ytdlp that created a temporary
\* directory has called rmtree on it when it returns, whatever the outcome
\* (copied, no file, tool raised, copy raised); and a file appears at the
\* output path only by the copy step, taken with the temporary file present.
C12_TempDirAlwaysRemoved ==
    /\ [](\A t \in Sequential :
            (WorkerReturned(t) /\ task[t].cause # "mkdtemp") => task[t].rm)
    /\ [][\A t \in Sequential :
            \A f \in hist'[t].copied \ hist[t].copied :
                /\ task[t].wpc = "copy"
                /\ task[t].tmp = "file"
                /\ f = task[t].output_path]_vars

C12_Witness ==
    \E t \in Sequential :
        /\ WorkerReturned(t)
        /\ task[t].cause = "tool"
        /\ task[t].rm
        /\ task[t].tmp = "none"

\* the Metadata Fetcher has built a record in this call: metadata holds it
HasRecord(t) == \E i \in DOMAIN hist[t].fetchLog : hist[t].fetchLog[i].res = "data"

\* C13: in every state local_path of a record is set if and only if the
\* download of that record has succeeded: it is None from construction, a
\* failed download leaves it None, it is set by the step that takes the
\* successful worker result and by no other, and once set it is not changed.
C13_LocalPathIffDownloaded ==
    /\ [](\A t \in Sequential :
            /\ HasRecord(t) =>
                  /\ task[t].metadata.local_path # None <=> task[t].metadata.url \in Succeeded(t)
                  /\ task[t].metadata.local_path # None =>
                        /\ task[t].metadata.local_path = DownloadPath(task[t].metadata.id)
                        /\ task[t].metadata.local_path \in hist[t].copied
            /\ \A k \in DOMAIN task[t].results :
                  task[t].results[k].local_path # None <=> task[t].results[k].url \in Succeeded(t))
    /\ [][\A t \in Sequential :
            (HasRecord(t) /\ task'[t].pc # "idle"
                /\ task'[t].metadata.local_path # task[t].metadata.local_path) =>
                    \/ /\ task[t].pc = "fetching"
                       /\ task'[t].metadata.local_path = None
                    \/ /\ task[t].pc = "downloading" /\ task[t].success = "true"
                       /\ task'[t].metadata.url = task[t].metadata.url
                       /\ task[t].metadata.local_path = None]_vars

C13_Witness ==
    \E t \in Sequential :
        /\ DownloadReturned(t)
        /\ task[t].cause = "copy"
        /\ task[t].metadata.local_path = None
        /\ Len(task[t].results) = 1
        /\ task[t].results[1].local_path = <<"D", "1">>

\* C14: within one call the items are processed one at a time and in input
\* order: a worker runs only while the call awaits it, a fetch is issued
\* only when no download is in flight and every earlier item has been
\* downloaded or skipped, the download of an item starts only after its own
\* fetch returned data, and fetches and downloads follow the order of the
\* input URLs.
C14_StrictlySequential ==
    \A t \in Sequential :
        /\ task[t].wpc # "idle" => task[t].pc = "downloading"
        /\ task[t].pc = "fetching" =>
              /\ task[t].wpc = "idle"
              /\ Len(hist[t].fetchLog) = task[t].idx - 1
              /\ Len(hist[t].dlLog) = task[t].idx - 1
        /\ task[t].pc = "downloading" =>
              /\ Len(hist[t].fetchLog) = task[t].idx
              /\ hist[t].fetchLog[task[t].idx] = [url |-> Item(task[t]).url, res |-> "data"]
              /\ Len(hist[t].dlLog) = task[t].idx - 1
        /\ \A i \in DOMAIN hist[t].fetchLog :
              /\ i <= Len(task[t].url_to_id)
              /\ hist[t].fetchLog[i].url = task[t].url_to_id[i].url
        /\ \A j \in DOMAIN hist[t].dlLog :
              /\ j <= Len(hist[t].fetchLog)
              /\ hist[t].dlLog[j].url = hist[t].fetchLog[j].url
              /\ hist[t].fetchLog[j].res = "data"
        /\ (\A i \in DOMAIN task[t].urls : task[t].urls[i] # None) =>
              IsSubseq([k \in DOMAIN task[t].url_to_id |-> task[t].url_to_id[k].url],
                       [i \in DOMAIN task[t].urls |-> Strip(task[t].urls[i])])

C14_Witness ==
    \E t \in Sequential :
        /\ task[t].pc = "fetching"
        /\ task[t].idx = 3
        /\ hist[t].dlLog[1].ok
        /\ ~hist[t].dlLog[2].ok

\* C15: within one call create_sessions is invoked at most once, and only
\* before any URL is resolved, fetched or downloaded; it is not invoked
\* when initialized was True at entry, and a call that gets past Acquire
\* without a session at entry has invoked it exactly once.
C15_CreateOncePerBatch ==
    \A t \in Sequential :
        /\ Cardinality(hist[t].created) <= 1
        /\ hist[t].entryInit => hist[t].created = {}
        /\ task[t].pc \in {"init", "creating"} =>
              /\ task[t].url_to_id = <<>>
              /\ hist[t].fetchLog = <<>>
              /\ hist[t].dlLog = <<>>
        /\ task[t].pc = "init" => hist[t].created = {}
        /\ (task[t].pc \in {"resolve", "process", "fetching", "downloading"}
              /\ ~hist[t].entryInit) => Cardinality(hist[t].created) = 1

C15_Witness ==
    \E t \in Sequential :
        /\ Returned(t)
        /\ hist[t].entryInit
        /\ hist[t].created = {}
        /\ hist[t].fetchLog # <<>>
        /\ nclients = 1

\* the client session of call t: the one it found at entry, or the one it made
Session(t) == IF hist[t].entryInit THEN {hist[t].entryApi} ELSE hist[t].created

\* call t is past Acquire, in Resolve or Process
InBatch(t) == task[t].pc \in {"resolve", "process", "fetching", "downloading"}

\* the collector holds the live, initialized session of call t
Owns(t) == initialized /\ api \in Session(t) /\ api \in live

\* no two calls on the collector have overlapped so far
NeverOverlapped == \A u \in Tasks : ~hist[u].overlap

\* C16: download_videos is not reentrant.  As long as no two calls have
\* overlapped, a call holds its session from Acquire to Release: in Acquire
\* self.api is the client it made, in Resolve and Process the collector
\* holds its live, initialized session.  With an overlapping call this is
\* lost: the witness is a call in Process whose session the other call's
\* Release has closed and cleared.
C16_OwnershipOnlyWithoutOverlap ==
    NeverOverlapped =>
        \A t \in Tasks :
            /\ task[t].pc = "creating" => api = task[t].client
            /\ InBatch(t) => Owns(t)

C16_Witness ==
    \E t \in Tasks : \E u \in Tasks \ {t} :
        /\ task[t].pc \in {"process", "fetching", "downloading"}
        /\ hist[t].created # {}
        /\ hist[t].overlap
        /\ hist[t].created \subseteq hist[u].closed
        /\ api = NoApi
        /\ initialized = FALSE

\* the Process loop is at an item: line 180 is the next test
AtItem(t) == task[t].pc = "process" /\ task[t].idx <= Len(task[t].url_to_id)

\* C17: in every state of a run of download_videos and cleanup calls that
\* do not overlap, initialized is True only if api is not None; a metadata
\* fetch in flight was issued on a client that is not None and whose
\* create_sessions has completed; and the loop never stands at an item
\* without a client, so the "not initialized" error of _get_video_info is
\* never raised.
C17_ClientReadyAtFetch ==
    /\ initialized => api # NoApi
    /\ \A t \in Sequential :
          /\ task[t].pc = "fetching" =>
                 task[t].client # NoApi /\ task[t].client \in live
          /\ AtItem(t) => api # NoApi

\* the second fetch is in flight in a batch begun after a cleanup() call that closed
\* the session an earlier batch had left behind
C17_Witness ==
    \E t \in Sequential :
        /\ task[t].pc = "fetching"
        /\ task[t].idx > 1
        /\ hist[t].cleaned # {}
        /\ task[t].client \in live \ hist[t].cleaned

\* the URLs of a sequence of records, in order
UrlsOf(recs) == [k \in DOMAIN recs |-> recs[k].url]

\* no URL twice
Distinct(us) == \A i, j \in DOMAIN us : us[i] = us[j] => i = j

\* index i holds the first input URL that trims to Strip(us[i])
FirstOccurrence(us, i) == \A j \in 1..(i - 1) : Trimmed[us[j]] # Trimmed[us[i]]

\* the trimmed input URLs that carry an ID, each at its first occurrence
RECURSIVE FirstTrimmed(_, _)
FirstTrimmed(us, i) ==
    IF i > Len(us) THEN <<>>
    ELSE IF IsValid(us[i]) /\ FirstOccurrence(us, i)
         THEN <<Trimmed[us[i]]>> \o FirstTrimmed(us, i + 1)
         ELSE FirstTrimmed(us, i + 1)

\* C18: within one call each distinct trimmed URL is fetched and downloaded
\* at most once: the items of the Process loop are the trimmed input URLs
\* that carry an ID, each once, at the position of its first occurrence, and
\* the fetches, the downloads and the returned records each name a URL at
\* most once.
C18_OncePerTrimmedUrl ==
    \A t \in Sequential :
        /\ task[t].pc \in {"process", "fetching", "downloading"} =>
               UrlsOf(task[t].url_to_id) = FirstTrimmed(task[t].urls, 1)
        /\ Distinct(UrlsOf(hist[t].fetchLog))
        /\ Distinct(UrlsOf(hist[t].dlLog))
        /\ Distinct(UrlsOf(task[t].results))
        /\ Distinct(UrlsOf(task[t].retval))

\* a returned call whose input held one URL twice, with and without
\* surrounding whitespace, and another URL between the two: both were
\* fetched and downloaded once, the repeated one first
C18_Witness ==
    \E t \in Sequential :
        /\ Returned(t)
        /\ \E j \in DOMAIN task[t].urls :
              /\ j - 1 > 1
              /\ task[t].urls[1] # task[t].urls[j]
              /\ Strip(task[t].urls[1]) = Strip(task[t].urls[j])
              /\ Len(hist[t].fetchLog) = j - 1
              /\ Len(hist[t].dlLog) = j - 1
              /\ Len(task[t].retval) = j - 1
        /\ task[t].retval[1].url = Strip(task[t].urls[1])

====
